---- MODULE Spec2Model ----
(***************************************************************************)
(* FinanceAI (src/main.py): the SQLite store, the FinanceAI engine methods *)
(* and the handlers of the Streamlit script main().                        *)
(*                                                                         *)
(* Encodings.                                                              *)
(*   - A money value is a Python float.  The state keeps it as the signed  *)
(*     number of cents of its two-decimal literal (the float entered as    *)
(*     0.10 is kept as 10); ToDouble gives the IEEE-754 double it stands   *)
(*     for, and the analytics operators compute on those doubles.          *)
(*   - A TEXT date is the sequence of the character codes of the string.   *)
(*   - Python None is None (user_id) or NoneStr (username).                *)
(***************************************************************************)
EXTENDS Integers, Sequences, FiniteSets, TLC

\* ------------------------------------------------------------------ bounds
\* Records entered through the forms before the exploration stops.
MaxRecords == 2
\* Rows of the users table before the exploration stops.
MaxUsers == 2
\* Rows of a transactions table the metrics are computed from.
MaxRows == 3

Sessions == {1, 2}
Usernames == {"alice", "bob"}
Passwords == {"pw1", "bad"}
RegisterPasswords == {"pw1"}
Emails == {"a@x"}
Descriptions == {"lunch"}
GoalNames == {"car"}

\* ------------------------------------------------------- values and text
None == 0
NoneStr == "<None>"

Pad2(n) == <<48 + (n \div 10), 48 + (n % 10)>>
Pad4(n) == <<48 + (n \div 1000), 48 + ((n \div 100) % 10)>> \o Pad2(n % 100)

\* datetime.date.__str__: the ISO form YYYY-MM-DD ("-" is character 45).
DateStr(d) == Pad4(d.y) \o <<45>> \o Pad2(d.m) \o <<45>> \o Pad2(d.d)

\* str(x) as the handlers apply it: a date prints in ISO form, a string is itself.
Str(v) == IF v.kind = "date" THEN DateStr(v) ELSE v.text

Date(y, m, d) == [kind |-> "date", y |-> y, m |-> m, d |-> d]
Text(s) == [kind |-> "text", text |-> s]

IsDigit(c) == c >= 48 /\ c <= 57
\* A string pd.to_datetime reads as a calendar date: the ISO form with a real
\* month and day (the model's dates stay below day 29).
ParsableDate(s) ==
    /\ Len(s) = 10
    /\ \A i \in {1, 2, 3, 4, 6, 7, 9, 10} : IsDigit(s[i])
    /\ s[5] = 45 /\ s[8] = 45
    /\ LET m == (s[6] - 48) * 10 + (s[7] - 48)
           d == (s[9] - 48) * 10 + (s[10] - 48)
       IN m >= 1 /\ m <= 12 /\ d >= 1 /\ d <= 28

\* pd.to_datetime on an ISO date string: its year, month and day.
Digits(s, i, j) == IF i = j THEN s[i] - 48 ELSE (s[i] - 48) * 10 + (s[j] - 48)
to_datetime(s) ==
    [y |-> Digits(s, 1, 2) * 100 + Digits(s, 3, 4), m |-> Digits(s, 6, 7), d |-> Digits(s, 9, 10)]

\* The day count of a Timestamp (days since 1970-01-01), by the civil-calendar
\* formula: years begin in March, eras are 400 years long.
DayNumber(t) ==
    LET y == IF t.m <= 2 THEN t.y - 1 ELSE t.y
        era == y \div 400
        yoe == y - era * 400
        doy == ((153 * (IF t.m > 2 THEN t.m - 3 ELSE t.m + 9) + 2) \div 5) + t.d - 1
        doe == yoe * 365 + (yoe \div 4) - (yoe \div 100) + doy
    IN era * 146097 + doe - 719468

\* ------------------------------------------------ float: IEEE-754 doubles
\* A finite double is a sign and a magnitude counted in units of 2^-60, held in
\* four limbs of 24 bits, lowest first.  Every double of 0.01 or more is a whole
\* number of these units; the limbs cover magnitudes below 2^17 = 131072.0,
\* where rounding to 53 bits touches the lowest limb only.
Limb == 2^24
NoLimbs == <<0, 0, 0, 0>>

\* Carries (or borrows) moved up until every limb is back in 0..Limb-1.
Normalize(raw) ==
    LET r1 == raw[1]
        r2 == raw[2] + (r1 \div Limb)
        r3 == raw[3] + (r2 \div Limb)
        r4 == raw[4] + (r3 \div Limb)
    IN <<r1 % Limb, r2 % Limb, r3 % Limb, r4>>

MagLess(a, b) ==
    LET differ == {i \in 1..4 : a[i] # b[i]}
    IN /\ differ # {}
       /\ LET k == CHOOSE i \in differ : \A j \in differ : j <= i
          IN a[k] < b[k]

MagAdd(a, b) == Normalize([i \in 1..4 |-> a[i] + b[i]])
\* a - b for a >= b
MagSub(a, b) == Normalize([i \in 1..4 |-> a[i] - b[i]])
MagTimes(a, k) == Normalize([i \in 1..4 |-> a[i] * k])

\* Number of significant bits of a limb, and of a magnitude.
BitLen(n) == IF n = 0 THEN 0 ELSE CHOOSE k \in 1..31 : 2^(k - 1) <= n /\ n \div 2 < 2^(k - 1)
MagBits(a) ==
    LET used == {i \in 1..4 : a[i] # 0}
    IN IF used = {} THEN 0
       ELSE LET top == CHOOSE i \in used : \A j \in used : j <= i
            IN 24 * (top - 1) + BitLen(a[top])

\* Round to nearest, ties to even, at 53 significant bits; sticky says that the
\* exact value lies above the magnitude given.
Round53(a, sticky) ==
    LET drop == MagBits(a) - 53
    IN IF drop <= 0 THEN a
       ELSE LET low == a[1] % 2^drop
                half == 2^(drop - 1)
                kept == [a EXCEPT ![1] = a[1] - low]
                odd == IF drop < 24 THEN (a[1] \div 2^drop) % 2 = 1 ELSE a[2] % 2 = 1
                up == \/ low > half
                      \/ low = half /\ (sticky \/ odd)
            IN IF up THEN Normalize([kept EXCEPT ![1] = kept[1] + 2^drop]) ELSE kept

Double(neg, mag) == [neg |-> neg /\ mag # NoLimbs, mag |-> mag]
Zero == Double(FALSE, NoLimbs)

\* float(literal) for a two-decimal literal of |cents| < 2^31 hundredths: the
\* double nearest to cents / 100, by long division of cents * 2^60 by 100.
ToDouble(cents) ==
    LET a == IF cents < 0 THEN -cents ELSE cents
        n4 == a \div 2^12
        n3 == (a % 2^12) * 2^12
        q4 == n4 \div 100
        c3 == (n4 % 100) * Limb + n3
        q3 == c3 \div 100
        c2 == (c3 % 100) * Limb
        q2 == c2 \div 100
        c1 == (c2 % 100) * Limb
        q1 == c1 \div 100
    IN Double(cents < 0, Round53(<<q1, q2, q3, q4>>, c1 % 100 # 0))

\* x + y
FAdd(x, y) ==
    IF x.neg = y.neg THEN Double(x.neg, Round53(MagAdd(x.mag, y.mag), FALSE))
    ELSE IF MagLess(x.mag, y.mag) THEN Double(y.neg, Round53(MagSub(y.mag, x.mag), FALSE))
    ELSE Double(x.neg, Round53(MagSub(x.mag, y.mag), FALSE))
\* -x, abs(x), x - y
FNeg(x) == Double(~x.neg, x.mag)
FAbs(x) == Double(FALSE, x.mag)
FSub(x, y) == FAdd(x, FNeg(y))
\* x > 0, x < 0
FPositive(x) == ~x.neg /\ x.mag # NoLimbs
FNegative(x) == x.neg

\* Series.sum() of fewer than eight values: added one by one from 0.0.
RECURSIVE FSum(_)
FSum(values) ==
    IF values = <<>> THEN Zero
    ELSE FAdd(FSum(SubSeq(values, 1, Len(values) - 1)), values[Len(values)])

\* A quotient needs bits below 2^-60: it is held in seven limbs, in units of
\* 2^-132 (three more limbs of fraction).
WideLimbs == 1..7
Widen(x) == [neg |-> x.neg, mag |-> <<0, 0, 0>> \o x.mag]

RECURSIVE Carry(_, _, _)
\* Carries moved up from limb i on, given the carry into it.
Carry(raw, i, carry) ==
    IF i > Len(raw) THEN <<>>
    ELSE LET r == raw[i] + carry
         IN IF i = Len(raw) THEN <<r>>
            ELSE <<r % Limb>> \o Carry(raw, i + 1, r \div Limb)
NormalizeWide(raw) == Carry(raw, 1, 0)

WideBits(a) ==
    LET used == {i \in WideLimbs : a[i] # 0}
    IN IF used = {} THEN 0
       ELSE LET top == CHOOSE i \in used : \A j \in used : j <= i
            IN 24 * (top - 1) + BitLen(a[top])

\* Round to nearest, ties to even, at 53 significant bits, wherever they lie.
RoundWide53(a, sticky) ==
    LET drop == WideBits(a) - 53
    IN IF drop <= 0 THEN a
       ELSE LET g == ((drop - 1) \div 24) + 1
                gbit == 2^((drop - 1) % 24)
                k == (drop \div 24) + 1
                kbit == 2^(drop % 24)
                guard == (a[g] \div gbit) % 2 = 1
                lower == \/ sticky
                         \/ a[g] % gbit # 0
                         \/ \E i \in 1..(g - 1) : a[i] # 0
                odd == (a[k] \div kbit) % 2 = 1
                kept == [i \in WideLimbs |->
                           IF i < k THEN 0
                           ELSE IF i = k THEN a[i] - (a[i] % kbit)
                           ELSE a[i]]
            IN IF guard /\ (lower \/ odd)
               THEN NormalizeWide([kept EXCEPT ![k] = kept[k] + kbit])
               ELSE kept

RECURSIVE DivLimbs(_, _, _, _)
\* Long division of the limbs i..1 of a by n (1 <= n < 128), given the
\* remainder carried down: <<quotient limbs i..1 lowest first, remainder>>.
DivLimbs(a, i, n, rem) ==
    IF i = 0 THEN <<<<>>, rem>>
    ELSE LET cur == rem * Limb + a[i]
             below == DivLimbs(a, i - 1, n, cur % n)
         IN <<Append(below[1], cur \div n), below[2]>>

\* x / n for a double x and an int n in 1..127: the double nearest the quotient.
FDiv(x, n) ==
    LET d == DivLimbs(Widen(x).mag, 7, n, 0)
        mag == RoundWide53(d[1], d[2] # 0)
    IN [neg |-> x.neg, mag |-> mag]

\* a < b for wide magnitudes.
WideLess(a, b) ==
    LET differ == {i \in WideLimbs : a[i] # b[i]}
    IN /\ differ # {}
       /\ LET k == CHOOSE i \in differ : \A j \in differ : j <= i
          IN a[k] < b[k]

\* w / n for a wide double w and an int n in 1..127.
FDivWide(w, n) ==
    LET d == DivLimbs(w.mag, 7, n, 0)
    IN [neg |-> w.neg, mag |-> RoundWide53(d[1], d[2] # 0)]

\* w * 100 for a wide double w.
FTimes100(w) ==
    [neg |-> w.neg, mag |-> RoundWide53(NormalizeWide([i \in WideLimbs |-> w.mag[i] * 100]), FALSE)]

\* 1.0
One == Widen(ToDouble(100))

\* f"{x:.1f}" for x >= 0, as the number of tenths printed: the exact binary
\* value rounded to one decimal, a tie going to the even digit.
FormatTenths(w) ==
    LET t == NormalizeWide([i \in WideLimbs |-> w.mag[i] * 10])
        whole == (t[6] \div 2^12) + t[7] * 2^12
        part == t[6] % 2^12
        below == \E i \in 1..5 : t[i] # 0
        up == \/ part > 2^11
              \/ part = 2^11 /\ (below \/ whole % 2 = 1)
    IN IF up THEN whole + 1 ELSE whole

\* ------------------------------------------------------------ the widgets
\* A widget hands the script only a value of its range; an entry outside it is
\* refused in the form and never reaches the handler.
\* st.selectbox(label, options)
selectbox(entry, options) == entry \in options
\* st.number_input(label, min_value=...)
number_input(entry, min_value) == entry >= min_value
\* st.date_input(label): a datetime.date
date_input(entry) == entry.kind = "date"

\* st.selectbox("Type", ["income", "expense"])
TypeOptions == {"income", "expense"}
\* st.number_input("Amount ($)", min_value=0.01, step=0.01), in cents
AmountMinValue == 1
\* st.selectbox("Category", categories): the explored part of the list
CategoryOptions == {"Food"}
\* st.number_input("Target Amount ($)", min_value=1.0), in cents
TargetMinValue == 100
\* st.number_input("Current Amount ($)", min_value=0.0), in cents
CurrentMinValue == 0

\* What the user of one session tries to enter: <<date, type, amount>> in the
\* Transactions tab, <<target, current, target date>> in the Goals tab.
TransactionEntries ==
    {<<Date(2024, 7, 1), "income", 1>>,
     <<Date(2024, 7, 1), "expense", 250>>,
     <<Date(2024, 7, 10), "income", 250>>,
     <<Date(2024, 7, 10), "expense", 1>>}
    \cup {<<Date(2024, 7, 1), "income", 0>>,
          <<Date(2024, 7, 1), "expense", -250>>,
          <<Date(2024, 7, 1), "transfer", 250>>,
          <<Text(<<110, 47, 97>>), "expense", 250>>,
          <<Text(<<110, 47, 97>>), "transfer", 0>>}
GoalEntries ==
    {<<100, 0, Date(2025, 1, 1)>>,
     <<10000, 15000, Date(2025, 1, 1)>>}
    \cup {<<0, 0, Date(2025, 1, 1)>>,
          <<-100, 15000, Date(2025, 1, 1)>>,
          <<100, -100, Date(2025, 1, 1)>>}

\* What the users of two sessions side by side try to enter.
SharedTransactionEntries == {<<Date(2024, 7, 1), "expense", 250>>}
SharedGoalEntries == {<<100, 15000, Date(2025, 1, 1)>>}

\* -------------------------------------------------------------- the state
VARIABLES
    users,          \* table users, rows in rowid order
    transactions,   \* table transactions (committed rows), rows in rowid order
    goals,          \* table goals (committed rows), rows in rowid order
    session,        \* st.session_state of each browser session
    run,            \* the script run of each session: where it is (pc), the
                    \* rows its connection has written and not yet committed,
                    \* and the widget values (form) those rows were made from
    screen          \* the metrics each session was last shown

vars == <<users, transactions, goals, session, run, screen>>

TransactionColumns == {"id", "user_id", "date", "amount", "category", "description", "type"}
GoalColumns == {"id", "user_id", "goal_name", "target_amount", "current_amount", "target_date"}

NoForm == [button |-> "-"]
Idle == [pc |-> "idle", table |-> "-", rows |-> <<>>, form |-> NoForm]
\* The last form entry of the session was refused by these widgets.
Refused(button, widgets) ==
    [pc |-> "refused", table |-> "-", rows |-> <<>>,
     form |-> [button |-> button, refused |-> widgets]]
SampleReady == [pc |-> "sample_ready", table |-> "-", rows |-> <<>>, form |-> NoForm]
Uncommitted(table, rows, form) ==
    [pc |-> "uncommitted", table |-> table, rows |-> rows, form |-> form]
NoMetrics == [view |-> "-"]

\* DatabaseManager.init_db on a fresh file, and the session state main() sets up.
Init ==
    /\ users = <<>>
    /\ transactions = <<>>
    /\ goals = <<>>
    /\ session = [s \in Sessions |->
                    [authenticated |-> FALSE, user_id |-> None, username |-> NoneStr]]
    /\ run = [s \in Sessions |-> Idle]
    /\ screen = [s \in Sessions |-> NoMetrics]

\* ------------------------------------------------------------ the store
SeqMax(ids) == IF ids = {} THEN 0 ELSE CHOOSE m \in ids : \A i \in ids : i <= m

\* INTEGER PRIMARY KEY left out of an INSERT: one more than the largest rowid.
NextRowId(table) == SeqMax({table[i].id : i \in 1..Len(table)}) + 1

\* SQLite lets one connection write at a time: a connection with uncommitted
\* rows holds the write lock until it commits or is closed.
WriteLockFree == \A s \in Sessions : run[s].pc # "uncommitted"

\* ----------------------------------------------------- FinanceAI: users
hash_password(password) == <<"sha256", password>>

authenticate_user(username, password) ==
    LET found == SelectSeq(users, LAMBDA r :
                     r.username = username /\ r.password_hash = hash_password(password))
    IN IF found # <<>> THEN Head(found).id ELSE None

UsernameTaken(username) == \E i \in 1..Len(users) : users[i].username = username

\* register_user writing INSERT OR REPLACE: the row of a username already
\* stored is deleted and the new one is stored under a new id.
register_user_Replace(username, password, email) ==
    LET kept == SelectSeq(users, LAMBDA r : r.username # username)
    IN users' = Append(kept, [id |-> NextRowId(users), username |-> username,
                              password_hash |-> hash_password(password),
                              email |-> email])

\* register_user: the UNIQUE constraint on username raises IntegrityError.
register_user(username, password, email) ==
    IF UsernameTaken(username)
    THEN UNCHANGED users
    ELSE users' = Append(users, [id |-> NextRowId(users), username |-> username,
                                 password_hash |-> hash_password(password),
                                 email |-> email])

\* What register_user returns: False where the INSERT raised IntegrityError.
register_user_returns(username) == ~UsernameTaken(username)

\* ------------------------------------------------ FinanceAI: transactions
\* The INSERT with category and description bound to each other's column.
TransactionRow_Swapped(id, user_id, date, amount, category, description, trans_type) ==
    [id |-> id, user_id |-> user_id, date |-> date, amount |-> amount,
     category |-> description, description |-> category, type |-> trans_type]

TransactionRow(id, user_id, date, amount, category, description, trans_type) ==
    [id |-> id, user_id |-> user_id, date |-> date, amount |-> amount,
     category |-> category, description |-> description, type |-> trans_type]

\* add_transaction that skips a row already stored with the same values.
add_transaction_Dedup(user_id, date, amount, category, description, trans_type) ==
    IF \E i \in 1..Len(transactions) :
          transactions[i] = TransactionRow(transactions[i].id, user_id, date, amount,
                                           category, description, trans_type)
    THEN <<>>
    ELSE <<TransactionRow(NextRowId(transactions), user_id, date, amount, category,
                          description, trans_type)>>

\* add_transaction up to its commit: cursor.execute(INSERT ...) leaves one
\* complete row uncommitted on the connection.
add_transaction(user_id, date, amount, category, description, trans_type) ==
    <<TransactionRow(NextRowId(transactions), user_id, date, amount, category,
                     description, trans_type)>>

\* The query with its WHERE clause left out.
RowsOfUser_NoWhere(table, user_id) == table

\* get_transactions: SELECT * FROM transactions WHERE user_id = ?
\* (the ORDER BY is applied by SortByDateDesc below)
RowsOfUser(table, user_id) == SelectSeq(table, LAMBDA r : r.user_id = user_id)

\* Text comparison of SQLite's BINARY collation: memcmp over the common
\* length, then the shorter text first.
TextLess(a, b) ==
    LET n == IF Len(a) < Len(b) THEN Len(a) ELSE Len(b)
        differ == {i \in 1..n : a[i] # b[i]}
    IN IF differ = {}
       THEN Len(a) < Len(b)
       ELSE LET k == CHOOSE i \in differ : \A j \in differ : i <= j
            IN a[k] < b[k]

\* ORDER BY date DESC on the TEXT column; rows with equal dates keep rowid order.
RECURSIVE InsertByDateDesc(_, _)
InsertByDateDesc(sorted, r) ==
    IF sorted = <<>> THEN <<r>>
    ELSE IF TextLess(Head(sorted).date, r.date) THEN <<r>> \o sorted
    ELSE <<Head(sorted)>> \o InsertByDateDesc(Tail(sorted), r)

RECURSIVE SortByDateDesc(_)
SortByDateDesc(rows) ==
    IF rows = <<>> THEN <<>>
    ELSE InsertByDateDesc(SortByDateDesc(SubSeq(rows, 1, Len(rows) - 1)), rows[Len(rows)])

\* The query with its ORDER BY left out: the rows in rowid order.
get_transactions_Unordered(user_id) == RowsOfUser(transactions, user_id)

\* get_transactions, on a connection that sees the committed rows.
get_transactions(user_id) == SortByDateDesc(RowsOfUser(transactions, user_id))

\* df.empty for df = get_transactions(user_id): sorting keeps the number of rows.
df_empty(user_id) == RowsOfUser(transactions, user_id) = <<>>

\* The Goals tab's query: SELECT * FROM goals WHERE user_id = ?
goals_query(user_id) == RowsOfUser(goals, user_id)

\* The sample list with the sign of the freelance income lost.
sample_transactions_SignSlip ==
    << <<Date(2024, 7, 1), -5000, "Food", "Grocery shopping", "expense">>,
       <<Date(2024, 7, 12), -50000, "Freelance", "Side project", "income">> >>

sample_transactions ==
    << <<Date(2024, 7, 1), -5000, "Food", "Grocery shopping", "expense">>,
       <<Date(2024, 7, 2), -2500, "Transportation", "Gas", "expense">>,
       <<Date(2024, 7, 3), 300000, "Salary", "Monthly salary", "income">>,
       <<Date(2024, 7, 5), -10000, "Entertainment", "Movie night", "expense">>,
       <<Date(2024, 7, 7), -20000, "Utilities", "Electricity bill", "expense">>,
       <<Date(2024, 7, 10), -7500, "Food", "Restaurant", "expense">>,
       <<Date(2024, 7, 12), 50000, "Freelance", "Side project", "income">>,
       <<Date(2024, 7, 15), -30000, "Shopping", "Clothes", "expense">>,
       <<Date(2024, 7, 18), -6000, "Health", "Pharmacy", "expense">>,
       <<Date(2024, 7, 20), -15000, "Insurance", "Car insurance", "expense">> >>

\* generate_sample_data up to its commit: ten INSERTs on one connection.  The
\* table has no UNIQUE column besides the rowid, so OR IGNORE never skips a row.
generate_sample_data(user_id) ==
    LET first == NextRowId(transactions)
    IN [i \in 1..Len(sample_transactions) |->
          LET t == sample_transactions[i]
          IN TransactionRow(first + i - 1, user_id, DateStr(t[1]), t[2], t[3], t[4], t[5])]

\* ------------------------------------------------------ main(): handlers
\* The handler with the sign left as entered.
RecordTransaction_Unsigned(user_id, trans_date, trans_type, amount, category, description) ==
    add_transaction(user_id, Str(trans_date), amount, category, description, trans_type)

\* The "Add Transaction" button: the sign is fixed here, then add_transaction.
RecordTransaction(user_id, trans_date, trans_type, amount, category, description) ==
    LET final_amount == IF trans_type = "income" THEN amount ELSE -amount
    IN add_transaction(user_id, Str(trans_date), final_amount, category,
                       description, trans_type)

GoalRow(id, user_id, goal_name, target_amount, current_amount, target_date) ==
    [id |-> id, user_id |-> user_id, goal_name |-> goal_name,
     target_amount |-> target_amount, current_amount |-> current_amount,
     target_date |-> target_date]

\* The "Add Goal" button up to its commit: the INSERT INTO goals.
RecordGoal(user_id, goal_name, target_amount, current_amount, target_date) ==
    <<GoalRow(NextRowId(goals), user_id, goal_name, target_amount, current_amount,
              Str(target_date))>>

\* The form with the amount's min_value left out.
TransactionFormAdmits_NoMinValue(trans_date, trans_type, amount) ==
    /\ date_input(trans_date)
    /\ selectbox(trans_type, TypeOptions)

\* The form of the Transactions tab: what its widgets let through.
TransactionFormAdmits(trans_date, trans_type, amount) ==
    /\ date_input(trans_date)
    /\ selectbox(trans_type, TypeOptions)
    /\ number_input(amount, AmountMinValue)

\* The form with the target's min_value left out.
GoalFormAdmits_NoTargetMin(target_amount, current_amount, target_date) ==
    /\ number_input(current_amount, CurrentMinValue)
    /\ date_input(target_date)

\* The form of the Goals tab: what its widgets let through.
GoalFormAdmits(target_amount, current_amount, target_date) ==
    /\ number_input(target_amount, TargetMinValue)
    /\ number_input(current_amount, CurrentMinValue)
    /\ date_input(target_date)

\* Rows entered through the forms (the sample rows carry other descriptions).
Entered ==
    Len(SelectSeq(transactions, LAMBDA r : r.description \in Descriptions)) + Len(goals)

\* No script run of the session is under way.
AtRest(s) == run[s].pc \in {"idle", "refused"}

\* The script without the early return of the authentication gate.
CanSubmit_NoGate(s) == AtRest(s)

\* The script reaches the tabs only in an authenticated session.
CanSubmit(s) ==
    /\ session[s].authenticated
    /\ AtRest(s)

Register(s) ==
    /\ ~session[s].authenticated
    /\ AtRest(s)
    /\ WriteLockFree
    /\ Len(users) < MaxUsers
    /\ \E new_username \in Usernames, new_password \in RegisterPasswords, new_email \in Emails :
           register_user(new_username, new_password, new_email)
    /\ run' = [run EXCEPT ![s] = Idle]
    /\ UNCHANGED <<transactions, goals, session, screen>>

\* The login form whose failed attempt leaves the typed username in the session.
Login_KeepsName(s) ==
    /\ ~session[s].authenticated
    /\ AtRest(s)
    /\ \E username \in Usernames, password \in Passwords :
           LET user_id == authenticate_user(username, password)
           IN IF user_id # None
              THEN session' = [session EXCEPT ![s] =
                                 [authenticated |-> TRUE, user_id |-> user_id,
                                  username |-> username]]
              ELSE session' = [session EXCEPT ![s].username = username]
    /\ run' = [run EXCEPT ![s] = Idle]
    /\ UNCHANGED <<users, transactions, goals, screen>>

\* The login form: "Login" submitted with a username and a password.
Login(s) ==
    /\ ~session[s].authenticated
    /\ AtRest(s)
    /\ \E username \in Usernames, password \in Passwords :
           LET user_id == authenticate_user(username, password)
           IN IF user_id # None
              THEN session' = [session EXCEPT ![s] =
                                 [authenticated |-> TRUE, user_id |-> user_id,
                                  username |-> username]]
              ELSE UNCHANGED session
    /\ run' = [run EXCEPT ![s] = Idle]
    /\ UNCHANGED <<users, transactions, goals, screen>>

Logout(s) ==
    /\ session[s].authenticated
    /\ AtRest(s)
    /\ session' = [session EXCEPT ![s] =
                     [authenticated |-> FALSE, user_id |-> None, username |-> NoneStr]]
    /\ run' = [run EXCEPT ![s] = Idle]
    /\ UNCHANGED <<users, transactions, goals, screen>>

\* The Transactions tab: the user fills the form and clicks "Add Transaction".
AddTransaction(s, entries) ==
    /\ CanSubmit(s)
    /\ Entered < MaxRecords
    /\ \E e \in entries, category \in CategoryOptions, description \in Descriptions :
         LET trans_date == e[1]
             trans_type == e[2]
             amount == e[3]
         IN IF TransactionFormAdmits(trans_date, trans_type, amount)
            THEN /\ WriteLockFree
                 /\ run' = [run EXCEPT ![s] =
                      Uncommitted("transactions",
                                  RecordTransaction(session[s].user_id, trans_date,
                                      trans_type, amount, category, description),
                                  [button |-> "Add Transaction", amount |-> amount,
                                   type |-> trans_type, date |-> trans_date,
                                   category |-> category, description |-> description])]
            ELSE run' = [run EXCEPT ![s] = Refused("Add Transaction",
                      {w \in {"Date", "Type", "Amount ($)"} :
                         \/ w = "Date" /\ ~date_input(trans_date)
                         \/ w = "Type" /\ ~selectbox(trans_type, TypeOptions)
                         \/ w = "Amount ($)" /\ ~number_input(amount, AmountMinValue)})]
    /\ UNCHANGED <<users, transactions, goals, session, screen>>

\* The Goals tab: the user fills the form and clicks "Add Goal".
AddGoal(s, entries) ==
    /\ CanSubmit(s)
    /\ Entered < MaxRecords
    /\ \E e \in entries, goal_name \in GoalNames :
         LET target_amount == e[1]
             current_amount == e[2]
             target_date == e[3]
         IN IF GoalFormAdmits(target_amount, current_amount, target_date)
            THEN /\ WriteLockFree
                 /\ run' = [run EXCEPT ![s] =
                      Uncommitted("goals",
                                  RecordGoal(session[s].user_id, goal_name, target_amount,
                                             current_amount, target_date),
                                  [button |-> "Add Goal", target_amount |-> target_amount])]
            ELSE run' = [run EXCEPT ![s] = Refused("Add Goal",
                      {w \in {"Target Amount ($)", "Current Amount ($)", "Target Date"} :
                         \/ w = "Target Amount ($)"
                               /\ ~number_input(target_amount, TargetMinValue)
                         \/ w = "Current Amount ($)"
                               /\ ~number_input(current_amount, CurrentMinValue)
                         \/ w = "Target Date" /\ ~date_input(target_date)})]
    /\ UNCHANGED <<users, transactions, goals, session, screen>>

\* "Generate Sample Data", first half: df is read and found empty, so the
\* button exists and its click is seen.
SampleRead(s) ==
    /\ CanSubmit(s)
    /\ df_empty(session[s].user_id)
    /\ run' = [run EXCEPT ![s] = SampleReady]
    /\ UNCHANGED <<users, transactions, goals, session, screen>>

\* Second half: generate_sample_data for the session's user.
SampleExecute(s) ==
    /\ run[s].pc = "sample_ready"
    /\ WriteLockFree
    /\ run' = [run EXCEPT ![s] =
                 Uncommitted("transactions", generate_sample_data(session[s].user_id),
                             [button |-> "Generate Sample Data"])]
    /\ UNCHANGED <<users, transactions, goals, session, screen>>

\* A commit that writes the table anew from the connection's rows.
Commit_Overwrites(s) ==
    /\ run[s].pc = "uncommitted"
    /\ IF run[s].table = "transactions"
       THEN /\ transactions' = run[s].rows
            /\ UNCHANGED goals
       ELSE /\ goals' = run[s].rows
            /\ UNCHANGED transactions
    /\ run' = [run EXCEPT ![s] = Idle]
    /\ UNCHANGED <<users, session, screen>>

\* A failure after which only the first half of the columns stays written.
StoreFailure_LeavesStub(s) ==
    /\ run[s].pc \in {"uncommitted", "sample_ready"}
    /\ run' = [run EXCEPT ![s] = Idle]
    /\ IF run[s].table = "transactions"
       THEN transactions' = transactions \o
                [i \in 1..Len(run[s].rows) |->
                    [c \in {"id", "user_id", "date", "description"} |-> run[s].rows[i][c]]]
       ELSE UNCHANGED transactions
    /\ UNCHANGED <<users, goals, session, screen>>

\* conn.commit(): the connection's rows become visible to every connection;
\* the run ends (st.rerun, or the end of the script).
Commit(s) ==
    /\ run[s].pc = "uncommitted"
    /\ IF run[s].table = "transactions"
       THEN /\ transactions' = transactions \o run[s].rows
            /\ UNCHANGED goals
       ELSE /\ goals' = goals \o run[s].rows
            /\ UNCHANGED transactions
    /\ run' = [run EXCEPT ![s] = Idle]
    /\ UNCHANGED <<users, session, screen>>

\* The store fails (sqlite3.Error out of execute or commit): the exception ends
\* the run, its connection is dropped and SQLite rolls its rows back.
StoreFailure(s) ==
    /\ run[s].pc \in {"uncommitted", "sample_ready"}
    /\ run' = [run EXCEPT ![s] = Idle]
    /\ UNCHANGED <<users, transactions, goals, session, screen>>

\* Two browser sessions side by side.
Next ==
    \E s \in Sessions :
        \/ Register(s)
        \/ Login(s)
        \/ Logout(s)
        \/ AddTransaction(s, SharedTransactionEntries)
        \/ AddGoal(s, SharedGoalEntries)
        \/ SampleRead(s)
        \/ SampleExecute(s)
        \/ Commit(s)
        \/ StoreFailure(s)

Spec == Init /\ [][Next]_vars

\* One browser session, whose user tries every explored entry of the forms.
NextLedger ==
    \/ Register(1)
    \/ Login(1)
    \/ Logout(1)
    \/ AddTransaction(1, TransactionEntries)
    \/ AddGoal(1, GoalEntries)
    \/ SampleRead(1)
    \/ SampleExecute(1)
    \/ Commit(1)
    \/ StoreFailure(1)

SpecLedger == Init /\ [][NextLedger]_vars

\* ------------------------------------------------- main(): the metrics
\* df['amount'] after pd.to_numeric: the float64 column, in the order of df.
amount_column(df) == [i \in 1..Len(df) |-> ToDouble(df[i].amount)]

\* df[df['amount'] > 0]['amount'].sum()
total_income(df) == FSum(SelectSeq(amount_column(df), FPositive))

\* total_expenses with the abs() left out.
total_expenses_NoAbs(df) == FSum(SelectSeq(amount_column(df), FNegative))

\* abs(df[df['amount'] < 0]['amount'].sum())
total_expenses(df) == FAbs(FSum(SelectSeq(amount_column(df), FNegative)))

\* total_income - total_expenses
net_worth(df) == FSub(total_income(df), total_expenses(df))

SetMax(S) == CHOOSE m \in S : \A x \in S : x <= m
SetMin(S) == CHOOSE m \in S : \A x \in S : m <= x

\* (df['date'].max() - df['date'].min()).days
date_span_days(df) ==
    LET days == {DayNumber(to_datetime(df[i].date)) : i \in 1..Len(df)}
    IN SetMax(days) - SetMin(days)

\* avg_daily dividing by the day span itself: numpy gives inf (nan for 0.0)
\* when the span is 0.
avg_daily_NoMax(df) ==
    LET days == date_span_days(df)
    IN IF days = 0 THEN [neg |-> net_worth(df).neg, mag |-> [i \in WideLimbs |-> 0], inf |-> TRUE]
       ELSE FDiv(net_worth(df), days)

\* net_worth / max(1, (df['date'].max() - df['date'].min()).days)
avg_daily(df) ==
    LET days == date_span_days(df)
    IN FDiv(net_worth(df), IF 1 >= days THEN 1 ELSE days)

RECURSIVE Kahan(_, _, _, _)
\* groupby(...).sum() for one group: the rows of the group are added in frame
\* order with a running compensation (y = val - compensation; t = sumx + y;
\* compensation = t - sumx - y; sumx = t).
Kahan(values, i, sumx, compensation) ==
    IF i > Len(values) THEN sumx
    ELSE LET y == FSub(values[i], compensation)
             t == FAdd(sumx, y)
         IN Kahan(values, i + 1, t, FSub(FSub(t, sumx), y))
group_sum(values) == Kahan(values, 1, Zero, Zero)

\* The breakdown with a key for every category of the frame, 0.0 where the
\* category has no expense.
expense_by_category_ZeroFilled(df) ==
    LET expenses == SelectSeq(df, LAMBDA r : FNegative(ToDouble(r.amount)))
    IN [c \in {df[i].category : i \in 1..Len(df)} |->
           FAbs(group_sum(amount_column(SelectSeq(expenses, LAMBDA r : r.category = c))))]

\* df[df['amount'] < 0].groupby('category')['amount'].sum().abs()
expense_by_category(df) ==
    LET expenses == SelectSeq(df, LAMBDA r : FNegative(ToDouble(r.amount)))
    IN [c \in {expenses[i].category : i \in 1..Len(expenses)} |->
           FAbs(group_sum(amount_column(SelectSeq(expenses, LAMBDA r : r.category = c))))]

\* The rows of one (date, type) group of the frame, in frame order.
daily_group(df, d, t) == SelectSeq(df, LAMBDA r : to_datetime(r.date) = d /\ r.type = t)

\* The daily sums left as grouped, without unstack: a type has a value only on
\* the dates of its own rows.
daily_summary_NoFill(df) ==
    LET types == {df[i].type : i \in 1..Len(df)}
        own(t) == {to_datetime(df[i].date) : i \in {j \in 1..Len(df) : df[j].type = t}}
        sum(d, t) == group_sum(amount_column(daily_group(df, d, t)))
    IN [t \in types |->
           [d \in own(t) |-> IF t = "expense" THEN FAbs(sum(d, t)) ELSE sum(d, t)]]

\* df.groupby([df['date'].dt.date, 'type'])['amount'].sum().unstack(fill_value=0)
\* with the expense column made absolute: one column per type of the frame, one
\* row per date of the frame, 0 where the date has no row of the type.
daily_summary(df) ==
    LET types == {df[i].type : i \in 1..Len(df)}
        index == {to_datetime(df[i].date) : i \in 1..Len(df)}
        filled(d, t) == IF daily_group(df, d, t) = <<>> THEN Zero
                        ELSE group_sum(amount_column(daily_group(df, d, t)))
    IN [t \in types |->
           [d \in index |-> IF t = "expense" THEN FAbs(filled(d, t)) ELSE filled(d, t)]]

\* The traces of the trend figure: x = daily_summary.index, y = the column,
\* for the income and the expense column where the frame has them.
fig_line(df) ==
    LET columns == daily_summary(df)
    IN [t \in DOMAIN columns \cap {"income", "expense"} |-> columns[t]]

\* The Dashboard tab computing its values also when df is empty.
DashboardView_NoGuard(df) ==
    [view |-> "dashboard",
     total_income |-> total_income(df),
     total_expenses |-> total_expenses(df),
     net_worth |-> net_worth(df)]

\* The Dashboard tab: the Key Metrics when df is not empty, else the st.info
\* notice alone.
DashboardView(df) ==
    IF df # <<>>
    THEN [view |-> "dashboard",
          total_income |-> total_income(df),
          total_expenses |-> total_expenses(df),
          net_worth |-> net_worth(df),
          avg_daily |-> avg_daily(df),
          expense_by_category |-> expense_by_category(df),
          fig_line |-> fig_line(df)]
    ELSE [view |-> "info"]

\* A script run of an authenticated session renders the Dashboard tab.
Dashboard(s) ==
    /\ CanSubmit(s)
    /\ screen' = [screen EXCEPT ![s] = DashboardView(get_transactions(session[s].user_id))]
    /\ UNCHANGED <<users, transactions, goals, session, run>>

\* The AI Insights tab's "Generate AI Insights": the totals of summary_data.
SummaryData(s) ==
    /\ CanSubmit(s)
    /\ ~df_empty(session[s].user_id)
    /\ LET df == get_transactions(session[s].user_id)
       IN screen' = [screen EXCEPT ![s] =
                       [view |-> "insights",
                        total_income |-> total_income(df),
                        total_expenses |-> total_expenses(df),
                        transaction_count |-> Len(df)]]
    /\ UNCHANGED <<users, transactions, goals, session, run>>

\* The rows of the tables the metrics are explored on: <<amount in cents,
\* date, category>>.
AnalyticsRows ==
    {<<10, Date(2024, 7, 1), "Salary">>,
     <<20, Date(2024, 7, 1), "Freelance">>,
     <<-1000, Date(2024, 7, 1), "Food">>,
     <<-20, Date(2024, 8, 1), "Transportation">>,
     <<-30, Date(2024, 7, 1), "Food">>,
     <<300000, Date(2024, 7, 3), "Salary">>,
     <<-5000, Date(2024, 7, 10), "Food">>,
     <<-7500, Date(2024, 7, 1), "Food">>,
     <<0, Date(2024, 7, 1), "Other">>}

RECURSIVE SeqsUpTo(_, _)
SeqsUpTo(S, n) ==
    IF n = 0 THEN {<<>>}
    ELSE LET shorter == SeqsUpTo(S, n - 1)
         IN shorter \cup {Append(q, x) : q \in {r \in shorter : Len(r) = n - 1}, x \in S}

\* A session logged in as the one registered user, whose table holds up to
\* MaxRows rows; the metrics are defined on any REAL the amount column holds.
InitAnalytics ==
    /\ users = <<[id |-> 1, username |-> "alice", password_hash |-> hash_password("pw1"),
                  email |-> "a@x"]>>
    /\ \E rows \in SeqsUpTo(AnalyticsRows, MaxRows) :
          transactions = [i \in 1..Len(rows) |->
              TransactionRow(i, 1, DateStr(rows[i][2]), rows[i][1], rows[i][3], "lunch",
                             IF rows[i][1] > 0 THEN "income" ELSE "expense")]
    /\ goals = <<>>
    /\ session = [s \in Sessions |->
                    IF s = 1
                    THEN [authenticated |-> TRUE, user_id |-> 1, username |-> "alice"]
                    ELSE [authenticated |-> FALSE, user_id |-> None, username |-> NoneStr]]
    /\ run = [s \in Sessions |-> Idle]
    /\ screen = [s \in Sessions |-> NoMetrics]

NextAnalytics ==
    \/ Dashboard(1)
    \/ SummaryData(1)

SpecAnalytics == InitAnalytics /\ [][NextAnalytics]_vars

\* ------------------------------------------------- main(): the goals shown
\* progress = (goal['current_amount'] / goal['target_amount']) * 100, for a
\* target of whole dollars up to 127.
progress(goal) == FTimes100(FDiv(ToDouble(goal.current_amount), goal.target_amount \div 100))

\* The value handed to st.progress with the min() left out.
progress_bar_NoMin(goal) == FDivWide(progress(goal), 100)

\* min(progress / 100, 1.0)
progress_bar(goal) ==
    LET value == FDivWide(progress(goal), 100)
    IN IF ~value.neg /\ WideLess(One.mag, value.mag) THEN One ELSE value

\* The "Display goals" loop of the Goals tab: per goal of the user, in the
\* order of goals_df, the bar value and the percent of the Progress line.
GoalsView(goals_df) ==
    [view |-> "goals",
     goals |-> [i \in 1..Len(goals_df) |->
                  [bar |-> progress_bar(goals_df[i]),
                   progress |-> progress(goals_df[i]),
                   percent |-> FormatTenths(progress(goals_df[i]))]]]

\* A script run of an authenticated session renders the goals of the Goals tab.
Goals(s) ==
    /\ CanSubmit(s)
    /\ screen' = [screen EXCEPT ![s] = GoalsView(goals_query(session[s].user_id))]
    /\ UNCHANGED <<users, transactions, goals, session, run>>

\* The goals the display is explored on: <<target, current>> in cents, as the
\* Goals form admits them.
GoalAmounts ==
    {<<100, 0>>, <<10000, 15000>>, <<10000, 10000>>, <<300, 100>>, <<700, 2500>>,
     <<12700, 1>>, <<10000, 3333>>, <<800, 100>>}

\* A session logged in as the one registered user, whose goals are up to
\* MaxRows of these.
InitGoals ==
    /\ users = <<[id |-> 1, username |-> "alice", password_hash |-> hash_password("pw1"),
                  email |-> "a@x"]>>
    /\ transactions = <<>>
    /\ \E rows \in SeqsUpTo(GoalAmounts, MaxRows) :
          goals = [i \in 1..Len(rows) |->
              GoalRow(i, 1, "car", rows[i][1], rows[i][2], DateStr(Date(2025, 1, 1)))]
    /\ session = [s \in Sessions |->
                    IF s = 1
                    THEN [authenticated |-> TRUE, user_id |-> 1, username |-> "alice"]
                    ELSE [authenticated |-> FALSE, user_id |-> None, username |-> NoneStr]]
    /\ run = [s \in Sessions |-> Idle]
    /\ screen = [s \in Sessions |-> NoMetrics]

NextGoals == Goals(1)

SpecGoals == InitGoals /\ [][NextGoals]_vars

\* ------------------------------------------------- main(): a script run
\* f"{x:,.2f}" as the signed number of hundredths printed: the exact binary
\* value rounded to two decimals, a tie going to the even digit.
FormatHundredths(x) ==
    LET t == MagTimes(x.mag, 100)
        whole == (t[3] \div 2^12) + t[4] * 2^12
        part == t[3] % 2^12
        below == t[1] # 0 \/ t[2] # 0
        up == \/ part > 2^11
              \/ part = 2^11 /\ (below \/ whole % 2 = 1)
        shown == IF up THEN whole + 1 ELSE whole
    IN IF x.neg THEN -shown ELSE shown

\* The "Recent Transactions" table of the Transactions tab: the columns date
\* (made a Timestamp by the Dashboard tab), category, description, amount and
\* type of df, the amount formatted.
RecentTransactions(df) ==
    [i \in 1..Len(df) |->
        <<to_datetime(df[i].date), df[i].category, df[i].description,
          FormatHundredths(ToDouble(df[i].amount)), df[i].type>>]

\* ------------------------------------------- main(): Advanced Analytics
\* df[df['amount'] < 0]: the expense rows of the frame, in frame order.
expense_rows(df) == SelectSeq(df, LAMBDA r : FNegative(ToDouble(r.amount)))

\* df['date'].dt.to_period('M') and df['date'].dt.day_name() of a row.
month(r) == [y |-> to_datetime(r.date).y, m |-> to_datetime(r.date).m]
DayNames == <<"Monday", "Tuesday", "Wednesday", "Thursday", "Friday", "Saturday", "Sunday">>
day_name(r) == DayNames[((DayNumber(to_datetime(r.date)) + 3) % 7) + 1]

\* df[df['amount'] < 0].groupby('month')['amount'].sum().abs()
monthly_spending(df) ==
    LET expenses == expense_rows(df)
    IN [k \in {month(expenses[i]) : i \in 1..Len(expenses)} |->
           FAbs(group_sum(amount_column(SelectSeq(expenses, LAMBDA r : month(r) = k))))]

\* df[df['amount'] < 0].groupby('category')['amount'].agg(['sum', 'count']).abs()
category_stats(df) ==
    LET expenses == expense_rows(df)
    IN [k \in {expenses[i].category : i \in 1..Len(expenses)} |->
           LET rows == SelectSeq(expenses, LAMBDA r : r.category = k)
           IN [total_spent |-> FAbs(group_sum(amount_column(rows))),
               transaction_count |-> Len(rows)]]

\* df[df['amount'] < 0].groupby('day_of_week')['amount'].sum().abs()
weekly_pattern(df) ==
    LET expenses == expense_rows(df)
    IN [k \in {day_name(expenses[i]) : i \in 1..Len(expenses)} |->
           FAbs(group_sum(amount_column(SelectSeq(expenses, LAMBDA r : day_name(r) = k))))]

\* The Advanced Analytics tab: nothing when df is empty.
AnalyticsView(df) ==
    IF df # <<>>
    THEN [view |-> "analytics",
          monthly_spending |-> monthly_spending(df),
          category_stats |-> category_stats(df),
          weekly_pattern |-> weekly_pattern(df)]
    ELSE NoMetrics

\* The run keeping the Dashboard values of the session's earlier run.
ScriptRun_Cached(s) ==
    /\ CanSubmit(s)
    /\ LET df == get_transactions(session[s].user_id)
       IN screen' = [screen EXCEPT ![s] =
                       [view |-> "run",
                        dashboard |-> IF screen[s].view = "run" THEN screen[s].dashboard
                                      ELSE DashboardView(df),
                        recent |-> RecentTransactions(df),
                        analytics |-> AnalyticsView(df)]]
    /\ UNCHANGED <<users, transactions, goals, session, run>>

\* A script run of an authenticated session in which no button is clicked:
\* df is read once and the tabs are rendered from it.
ScriptRun(s) ==
    /\ CanSubmit(s)
    /\ LET df == get_transactions(session[s].user_id)
       IN screen' = [screen EXCEPT ![s] =
                       [view |-> "run",
                        dashboard |-> DashboardView(df),
                        recent |-> RecentTransactions(df),
                        analytics |-> AnalyticsView(df)]]
    /\ UNCHANGED <<users, transactions, goals, session, run>>

\* The entries of the session whose runs are looked at between its writes.
ViewTransactionEntries ==
    {<<Date(2024, 7, 1), "expense", 250>>, <<Date(2024, 7, 10), "income", 1>>}

\* One browser session that writes and looks at its tabs in turn.
NextViews ==
    \/ Register(1)
    \/ Login(1)
    \/ Logout(1)
    \/ AddTransaction(1, ViewTransactionEntries)
    \/ AddGoal(1, SharedGoalEntries)
    \/ Commit(1)
    \/ StoreFailure(1)
    \/ ScriptRun(1)

SpecViews == Init /\ [][NextViews]_vars

\* The rows of the tables the expense aggregates are explored on: <<amount in
\* cents, date, category>>, over two months, three days of the week and three
\* expense categories.
TrendRows ==
    {<<-10, Date(2024, 7, 1), "Food">>,
     <<-20, Date(2024, 7, 2), "Transportation">>,
     <<-30, Date(2024, 8, 5), "Food">>,
     <<-5000, Date(2024, 7, 10), "Food">>,
     <<-7500, Date(2024, 8, 5), "Shopping">>,
     <<300000, Date(2024, 7, 3), "Salary">>}

\* A session logged in as the one registered user, whose table holds up to
\* MaxRows of these rows.
InitTrends ==
    /\ users = <<[id |-> 1, username |-> "alice", password_hash |-> hash_password("pw1"),
                  email |-> "a@x"]>>
    /\ \E rows \in SeqsUpTo(TrendRows, MaxRows) :
          transactions = [i \in 1..Len(rows) |->
              TransactionRow(i, 1, DateStr(rows[i][2]), rows[i][1], rows[i][3], "lunch",
                             IF rows[i][1] > 0 THEN "income" ELSE "expense")]
    /\ goals = <<>>
    /\ session = [s \in Sessions |->
                    IF s = 1
                    THEN [authenticated |-> TRUE, user_id |-> 1, username |-> "alice"]
                    ELSE [authenticated |-> FALSE, user_id |-> None, username |-> NoneStr]]
    /\ run = [s \in Sessions |-> Idle]
    /\ screen = [s \in Sessions |-> NoMetrics]

NextTrends == ScriptRun(1)

SpecTrends == InitTrends /\ [][NextTrends]_vars

\* ------------------------------------------------ main(): the register form
\* What the register form shows after "Register": st.success when
\* register_user returned True, st.error when it returned False.
Registration(username, ok) == [view |-> "register", username |-> username, ok |-> ok]

RegisterEmails == {"a@x", "b@x"}

\* The register form with its message: any password and email may be typed,
\* for a new username as for one already stored.
RegisterForm(s) ==
    /\ ~session[s].authenticated
    /\ AtRest(s)
    /\ WriteLockFree
    /\ Len(users) < MaxUsers
    /\ \E new_username \in Usernames, new_password \in Passwords, new_email \in RegisterEmails :
           /\ register_user(new_username, new_password, new_email)
           /\ screen' = [screen EXCEPT ![s] =
                           Registration(new_username, register_user_returns(new_username))]
    /\ run' = [run EXCEPT ![s] = Idle]
    /\ UNCHANGED <<transactions, goals, session>>

\* Two browser sessions at the login and register forms.
NextRegister ==
    \E s \in Sessions :
        \/ RegisterForm(s)
        \/ Login(s)
        \/ Logout(s)

SpecRegister == Init /\ [][NextRegister]_vars

\* ================================================================ claims
Last(seq) == seq[Len(seq)]
IsPrefix(a, b) == Len(a) <= Len(b) /\ SubSeq(b, 1, Len(a)) = a
UncommittedBy(s, button) == run[s].pc = "uncommitted" /\ run[s].form.button = button
\* The transaction rows stored or written and not yet committed.
AllTransactionRows ==
    {transactions[i] : i \in 1..Len(transactions)}
    \cup UNION {{run[s].rows[i] : i \in 1..Len(run[s].rows)} :
                  s \in {t \in Sessions : run[t].table = "transactions"}}
SignMatchesType(r) ==
    \/ r.type = "income" /\ r.amount > 0
    \/ r.type = "expense" /\ r.amount < 0

\* C1: an "Add Transaction" with an admitted amount and type writes exactly one
\* row, whose amount is +amount for income and -amount for expense (so it is
\* positive iff the type is income), and its commit appends exactly that row.
C1_SignFollowsType ==
    /\ [](\A s \in Sessions : UncommittedBy(s, "Add Transaction") =>
            /\ Len(run[s].rows) = 1
            /\ run[s].form.amount > 0 /\ run[s].form.type \in TypeOptions
            /\ run[s].rows[1].type = run[s].form.type
            /\ run[s].rows[1].amount =
                 (IF run[s].form.type = "income"
                  THEN run[s].form.amount ELSE -run[s].form.amount)
            /\ (run[s].rows[1].amount > 0 <=> run[s].form.type = "income"))
    /\ [][\A s \in Sessions :
            (UncommittedBy(s, "Add Transaction") /\ run'[s].pc = "idle"
               /\ transactions' # transactions)
            => transactions' = Append(transactions, run[s].rows[1])]_vars

C1_Witness ==
    \E i, j \in 1..Len(transactions) :
        /\ transactions[i].description \in Descriptions
        /\ transactions[j].description \in Descriptions
        /\ transactions[i].type = "expense" /\ transactions[i].amount = -250
        /\ transactions[j].type = "income" /\ transactions[j].amount = 1

\* C2: an entry with an amount <= 0, a date that is no date or a type other
\* than income and expense is refused before the store is touched: the refusal
\* writes nothing and leaves the tables as they were, and no transaction row,
\* stored or uncommitted, carries such a value.
ValidTransaction(r) ==
    /\ r.type \in TypeOptions
    /\ ParsableDate(r.date)
    /\ SignMatchesType(r)

C3_StoredSignMatchesType ==
    \A i \in 1..Len(transactions) : SignMatchesType(transactions[i])

C3_Witness ==
    /\ \E i \in 1..Len(transactions) : transactions[i].description = "Side project"
    /\ \E i \in 1..Len(transactions) :
          transactions[i].description \in Descriptions /\ transactions[i].type = "income"
    /\ \E i \in 1..Len(transactions) :
          transactions[i].description \in Descriptions /\ transactions[i].type = "expense"

C5_TransactionsOnlyGrow ==
    [][/\ IsPrefix(transactions, transactions')
       /\ \A u \in 1..MaxUsers :
             IsPrefix(RowsOfUser(transactions, u), RowsOfUser(transactions', u))]_vars

C5_Witness ==
    /\ Len(transactions) > Len(sample_transactions)
    /\ \E u \in 1..MaxUsers :
          /\ RowsOfUser(transactions, u) # <<>>
          /\ RowsOfUser(transactions, u) # transactions

\* C6: nothing is merged or deduplicated: an "Add Transaction" writes one new
\* row under an identifier no stored row has, also when a row with the same
\* values is stored already, so identifiers stay distinct and k equal entries
\* leave k rows.
SameValues(a, b) == [a EXCEPT !.id = b.id] = b

C6_NoDeduplication ==
    /\ [](/\ \A i, j \in 1..Len(transactions) :
                i # j => transactions[i].id # transactions[j].id
          /\ \A s \in Sessions : UncommittedBy(s, "Add Transaction") =>
                /\ Len(run[s].rows) = 1
                /\ \A i \in 1..Len(transactions) :
                      transactions[i].id # run[s].rows[1].id)
    /\ [][\A s \in Sessions :
            (UncommittedBy(s, "Add Transaction") /\ transactions' # transactions)
            => /\ Len(transactions') = Len(transactions) + 1
               /\ \A i \in 1..Len(transactions) :
                     transactions'[i] = transactions[i]
                     /\ transactions[i].id # Last(transactions').id]_vars

C6_Witness ==
    \E i, j \in 1..Len(transactions) :
        /\ i # j
        /\ transactions[i].description \in Descriptions
        /\ SameValues(transactions[i], transactions[j])
        /\ transactions[i].id # transactions[j].id

\* C7: a write is one atomic append.  A row a listing can return is complete
\* (it has every column of its table) and is no row of a write still under way;
\* a form's write holds exactly one row; and the write ends either with all its
\* rows appended to its table or, when the store fails, with both tables as
\* they were.
Complete(r, columns) == DOMAIN r = columns

WrittenIds(table) ==
    UNION {{run[s].rows[j].id : j \in 1..Len(run[s].rows)} :
             s \in {t \in Sessions : run[t].table = table}}

C7_AtomicAppend ==
    /\ [](/\ \A u \in 1..MaxUsers :
               LET df == get_transactions(u)
                   user_goals == goals_query(u)
               IN /\ \A i \in 1..Len(df) :
                        /\ Complete(df[i], TransactionColumns)
                        /\ df[i].id \notin WrittenIds("transactions")
                  /\ \A i \in 1..Len(user_goals) :
                        /\ Complete(user_goals[i], GoalColumns)
                        /\ user_goals[i].id \notin WrittenIds("goals")
          /\ \A s \in Sessions :
               (UncommittedBy(s, "Add Transaction") \/ UncommittedBy(s, "Add Goal"))
                  => Len(run[s].rows) = 1)
    /\ [][\A s \in Sessions :
            (run[s].pc = "uncommitted" /\ run'[s].pc # "uncommitted")
            => \/ transactions' = transactions /\ goals' = goals
               \/ /\ run[s].table = "transactions"
                  /\ transactions' = transactions \o run[s].rows /\ goals' = goals
               \/ /\ run[s].table = "goals"
                  /\ goals' = goals \o run[s].rows /\ transactions' = transactions]_vars

\* A write of one session is under way while another session of the same user,
\* who has stored rows already, is at rest and can list.
C7_Witness ==
    \E s, t \in Sessions :
        /\ s # t
        /\ UncommittedBy(s, "Add Transaction")
        /\ CanSubmit(t)
        /\ session[t].user_id = session[s].user_id
        /\ get_transactions(session[t].user_id) # <<>>
        /\ goals_query(session[t].user_id) # <<>>

\* C8: the rows of a user belong to that user alone.  The listing and the goals query for
\* user u return only rows whose user_id is u, and a step changes them only when
\* it commits a write of a session logged in as u; goal progress and the
\* dashboard values are functions of these two results.
ListingFrom(transaction_rows, goal_rows, u) ==
    <<SortByDateDesc(RowsOfUser(transaction_rows, u)), RowsOfUser(goal_rows, u)>>

C8_OwnedByUser ==
    /\ [](\A u \in 1..MaxUsers :
            LET df == get_transactions(u)
                user_goals == goals_query(u)
            IN /\ \A i \in 1..Len(df) : df[i].user_id = u
               /\ \A i \in 1..Len(user_goals) : user_goals[i].user_id = u)
    /\ [][\A u \in 1..MaxUsers :
            ((transactions' # transactions \/ goals' # goals)
               /\ ~\E s \in Sessions :
                     /\ session[s].user_id = u
                     /\ run[s].pc = "uncommitted" /\ run'[s].pc = "idle")
            => ListingFrom(transactions', goals', u) = ListingFrom(transactions, goals, u)]_vars

\* Two users each own transactions and a goal.
C8_Witness ==
    /\ Len(users) = 2
    /\ \A u \in 1..2 : get_transactions(u) # <<>> /\ goals_query(u) # <<>>

\* The decimal sums the specification speaks of, in cents.
Amounts(df) == [i \in 1..Len(df) |-> df[i].amount]
RECURSIVE SumCents(_)
SumCents(cents) == IF cents = <<>> THEN 0 ELSE Head(cents) + SumCents(Tail(cents))
IncomeCents(df) == SumCents(SelectSeq(Amounts(df), LAMBDA a : a > 0))
ExpenseCents(df) == -SumCents(SelectSeq(Amounts(df), LAMBDA a : a < 0))
SignedCents(df) == SumCents(Amounts(df))

\* cents * 2^60, the magnitude of 100 times the amount of cents hundredths.
CentsTimes100(cents) == <<0, 0, (cents % 2^12) * 2^12, cents \div 2^12>>
\* |x - cents / 100| < 0.005 for cents >= 0: x shows as that amount of cents.
AgreesToCent(x, cents) ==
    LET hundredfold == MagTimes(x.mag, 100)
        exact == CentsTimes100(cents)
        apart == IF x.neg THEN MagAdd(hundredfold, exact)
                 ELSE IF MagLess(hundredfold, exact) THEN MagSub(exact, hundredfold)
                 ELSE MagSub(hundredfold, exact)
    IN MagLess(apart, <<0, 0, 2^11, 0>>)

ShowsTotals(s) == screen[s].view \in {"dashboard", "insights"}

\* C9: total income is the sum of the amounts > 0 and total expenses is the
\* absolute value of the sum of the amounts < 0, a zero amount counting toward
\* neither: each total shown is the sum of exactly those amounts as the float
\* column adds them up in listing order, is non-negative and is, to the cent,
\* the decimal sum of those amounts (exactly so where one amount alone is
\* summed); for [(-50, Food), (+3000, Salary), (-75, Food)] the totals are
\* exactly 3000 and 125.
C9_TotalsAreSums ==
    \A s \in Sessions : ShowsTotals(s) =>
        LET df == get_transactions(session[s].user_id)
            income == SelectSeq(Amounts(df), LAMBDA a : a > 0)
            expense == SelectSeq(Amounts(df), LAMBDA a : a < 0)
        IN /\ screen[s].total_income = FSum([i \in 1..Len(income) |-> ToDouble(income[i])])
           /\ screen[s].total_expenses =
                 FAbs(FSum([i \in 1..Len(expense) |-> ToDouble(expense[i])]))
           /\ ~screen[s].total_income.neg
           /\ ~screen[s].total_expenses.neg
           /\ AgreesToCent(screen[s].total_income, IncomeCents(df))
           /\ AgreesToCent(screen[s].total_expenses, ExpenseCents(df))
           /\ Len(income) <= 1 => screen[s].total_income = ToDouble(IncomeCents(df))
           /\ Len(expense) <= 1 => screen[s].total_expenses = ToDouble(ExpenseCents(df))
           /\ Amounts(df) = <<-5000, 300000, -7500>>
                 => /\ screen[s].total_income = ToDouble(300000)
                    /\ screen[s].total_expenses = ToDouble(12500)

\* The totals of the specification's example are on the screen.
C9_Witness ==
    \E s \in Sessions :
        /\ screen[s].view = "dashboard"
        /\ Amounts(get_transactions(session[s].user_id)) = <<-5000, 300000, -7500>>
        /\ screen[s].total_income = ToDouble(300000)
        /\ screen[s].total_expenses = ToDouble(12500)

\* C10: the net worth shown equals total income minus total expenses exactly,
\* and equals the signed sum of all the user's stored amounts: their sum in
\* decimal arithmetic, or at least their sum as the amount column adds up.
C10_NetWorthIsSignedSum ==
    \A s \in Sessions : screen[s].view = "dashboard" =>
        LET df == get_transactions(session[s].user_id)
        IN /\ screen[s].net_worth = FSub(screen[s].total_income, screen[s].total_expenses)
           /\ \/ screen[s].net_worth = ToDouble(SignedCents(df))
              \/ screen[s].net_worth = FSum(amount_column(df))

DayIn2024(s) ==
    LET before == <<0, 31, 60, 91, 121, 152, 182, 213, 244, 274, 305, 335>>
    IN before[(s[6] - 48) * 10 + (s[7] - 48)] + (s[9] - 48) * 10 + (s[10] - 48)
\* Days between the earliest and the latest date of df.
DaysCovered(df) ==
    LET days == {DayIn2024(df[i].date) : i \in 1..Len(df)}
    IN SetMax(days) - SetMin(days)

WideTimes(a, k) == NormalizeWide([i \in WideLimbs |-> a[i] * k])
\* |a - b|
WideApart(a, b) ==
    IF WideLess(a, b) THEN NormalizeWide([i \in WideLimbs |-> b[i] - a[i]])
    ELSE NormalizeWide([i \in WideLimbs |-> a[i] - b[i]])
\* n times half a unit in the last place of the 53-bit value q (0 if q is exact
\* to the last limb).
HalfUlpTimes(q, n) ==
    LET drop == WideBits(q) - 53
    IN IF drop <= 0 THEN [i \in WideLimbs |-> 0]
       ELSE NormalizeWide([i \in WideLimbs |->
                IF i = ((drop - 1) \div 24) + 1 THEN n * 2^((drop - 1) % 24) ELSE 0])

\* C12: the daily average is the net worth divided by max(1, days between the
\* earliest and the latest date): with all rows on one day (or on two days
\* next to each other) it is the net worth itself, otherwise it is the double
\* nearest to net worth / days (n times it lies within n half units in the
\* last place of the net worth), with the sign of the net worth; it is always
\* a finite number.
C12_DailyAverage ==
    \A s \in Sessions : screen[s].view = "dashboard" =>
        LET df == get_transactions(session[s].user_id)
            n == IF DaysCovered(df) > 1 THEN DaysCovered(df) ELSE 1
            q == screen[s].avg_daily
            x == Widen(screen[s].net_worth)
        IN /\ DOMAIN q = {"neg", "mag"}
           /\ q.neg = x.neg
           /\ n = 1 => q = x
           /\ ~WideLess(HalfUlpTimes(q.mag, n), WideApart(WideTimes(q.mag, n), x.mag))

\* A history of several rows on a single day, with a net worth other than 0.
C12_Witness ==
    \E s \in Sessions :
        /\ screen[s].view = "dashboard"
        /\ Len(get_transactions(session[s].user_id)) = MaxRows
        /\ DaysCovered(get_transactions(session[s].user_id)) = 0
        /\ screen[s].avg_daily = Widen(screen[s].net_worth)
        /\ screen[s].net_worth # Zero

\* The absolute amounts, in cents and in listing order, of the expense rows of
\* one category.
ExpenseCentsOf(df, c) ==
    LET rows == SelectSeq(df, LAMBDA r : r.category = c /\ r.amount < 0)
    IN [i \in 1..Len(rows) |-> -rows[i].amount]

\* C13: the category breakdown has a key exactly for every category with at
\* least one expense row (amount < 0) and maps it to the sum of the absolute
\* expense amounts of that category: the sum of those absolute values as the
\* grouped float column adds them, non-negative and, to the cent, their
\* decimal sum (exactly so for a single expense); [(Food, -10), (Salary,
\* +3000)] gives {Food: 10} with no Salary key.
C13_BreakdownByCategory ==
    \A s \in Sessions : screen[s].view = "dashboard" =>
        LET df == get_transactions(session[s].user_id)
            breakdown == screen[s].expense_by_category
        IN /\ DOMAIN breakdown = {df[i].category : i \in {j \in 1..Len(df) : df[j].amount < 0}}
           /\ \A c \in DOMAIN breakdown :
                 LET cents == ExpenseCentsOf(df, c)
                 IN /\ breakdown[c] = group_sum([i \in 1..Len(cents) |-> ToDouble(cents[i])])
                    /\ ~breakdown[c].neg
                    /\ AgreesToCent(breakdown[c], SumCents(cents))
                    /\ Len(cents) = 1 => breakdown[c] = ToDouble(cents[1])
           /\ /\ Len(df) = 2
              /\ {<<df[i].category, df[i].amount>> : i \in 1..2} = {<<"Food", -1000>>, <<"Salary", 300000>>}
              => breakdown = [c \in {"Food"} |-> ToDouble(1000)]

\* The breakdown of the specification's example is on the screen: Food alone,
\* at 10.
C13_Witness ==
    \E s \in Sessions :
        /\ screen[s].view = "dashboard"
        /\ LET df == get_transactions(session[s].user_id)
           IN /\ Len(df) = 2
              /\ {<<df[i].category, df[i].amount>> : i \in 1..2} = {<<"Food", -1000>>, <<"Salary", 300000>>}
        /\ DOMAIN screen[s].expense_by_category = {"Food"}
        /\ screen[s].expense_by_category["Food"] = ToDouble(1000)

\* The dates of the rows of df, and of its rows of one type, as the series
\* index holds them.
DatesOf(df) == {to_datetime(df[i].date) : i \in 1..Len(df)}
DatesOfType(df, t) == {to_datetime(df[i].date) : i \in {j \in 1..Len(df) : df[j].type = t}}

\* C14 as stated: each of the income and expense series has a point for a date
\* only if a transaction of that type exists on that date, and no date
\* without transactions appears.
C14_SeriesOnlyOwnDates ==
    \A s \in Sessions : screen[s].view = "dashboard" =>
        LET df == get_transactions(session[s].user_id)
        IN \A t \in DOMAIN screen[s].fig_line :
               DOMAIN screen[s].fig_line[t] \subseteq DatesOfType(df, t)

\* C14: the trend has an income series and an expense series exactly where the
\* user has a transaction of that type; each series has a point for every date
\* on which the user has a transaction of either type and for no other date;
\* the point is the day's sum for the type (absolute for expenses), and 0 on
\* a date that has no transaction of the series' type.
C14_SeriesShareDates ==
    \A s \in Sessions : screen[s].view = "dashboard" =>
        LET df == get_transactions(session[s].user_id)
            series == screen[s].fig_line
        IN /\ DOMAIN series = {df[i].type : i \in 1..Len(df)}
           /\ \A t \in DOMAIN series :
                 /\ DOMAIN series[t] = DatesOf(df)
                 /\ \A d \in DOMAIN series[t] :
                       LET cents == SelectSeq(df, LAMBDA r : r.date = DateStr(d) /\ r.type = t)
                       IN /\ ~series[t][d].neg
                          /\ d \notin DatesOfType(df, t) <=> cents = <<>>
                          /\ cents = <<>> => series[t][d] = Zero
                          /\ Len(cents) = 1 => series[t][d] = FAbs(ToDouble(cents[1].amount))
                          /\ AgreesToCent(series[t][d],
                                SumCents([i \in 1..Len(cents) |->
                                    IF t = "expense" THEN -cents[i].amount ELSE cents[i].amount]))

\* An income series with a point, at 0, on a day that has only an expense.
C14_Witness ==
    \E s \in Sessions :
        /\ screen[s].view = "dashboard"
        /\ LET df == get_transactions(session[s].user_id)
           IN /\ "income" \in DOMAIN screen[s].fig_line
              /\ \E d \in DOMAIN screen[s].fig_line["income"] :
                    /\ d \notin DatesOfType(df, "income")
                    /\ d \in DatesOfType(df, "expense")
                    /\ screen[s].fig_line["income"][d] = Zero

\* C15: for every stored goal the percent reported is 100 * current / target
\* with no cap: it prints as the tenth nearest the exact percent, it is above
\* 100 whenever current is above target, and a goal of current 150 against
\* target 100 reports 150.0; the value given to the progress bar is within
\* [0, 1]: it is 1 from current = target on, and below that current / target
\* to two units in the last place.
C15_PercentUncappedBarClamped ==
    \A s \in Sessions : screen[s].view = "goals" =>
        LET goals_df == goals_query(session[s].user_id)
        IN /\ Len(screen[s].goals) = Len(goals_df)
           /\ \A i \in 1..Len(goals_df) :
                 LET shown == screen[s].goals[i]
                     current == goals_df[i].current_amount
                     target == goals_df[i].target_amount
                     dollars == target \div 100
                     exact == 2 * (shown.percent * dollars - 10 * current)
                 IN /\ exact <= dollars /\ -exact <= dollars
                    /\ current > target => WideLess(Widen(ToDouble(10000)).mag, shown.progress.mag)
                    /\ current = 15000 /\ target = 10000
                          => shown.progress = Widen(ToDouble(15000)) /\ shown.percent = 1500
                    /\ ~shown.bar.neg
                    /\ ~WideLess(One.mag, shown.bar.mag)
                    /\ current >= target <=> shown.bar = One
                    /\ current < target
                          => ~WideLess(WideTimes(HalfUlpTimes(shown.bar.mag, dollars), 4),
                                       WideApart(WideTimes(shown.bar.mag, dollars),
                                                 Widen(ToDouble(current)).mag))

\* A goal of current 150 against target 100 is shown at 150.0 percent with a
\* full bar.
C15_Witness ==
    \E s \in Sessions :
        /\ screen[s].view = "goals"
        /\ \E i \in 1..Len(screen[s].goals) :
              /\ goals_query(session[s].user_id)[i].current_amount = 15000
              /\ goals_query(session[s].user_id)[i].target_amount = 10000
              /\ screen[s].goals[i].percent = 1500
              /\ screen[s].goals[i].bar = One

\* The calendar day a stored date stands for.
DayOf(r) == DayNumber(to_datetime(r.date))

\* C16: the listing of a user's transactions is ordered most recent date
\* first: of two consecutive records the one listed first is not dated
\* before the one listed after it, in whatever date order the records were
\* appended.
C16_ListingMostRecentFirst ==
    \A u \in 1..MaxUsers :
        LET df == get_transactions(u)
        IN \A i \in 1..(Len(df) - 1) : DayOf(df[i]) >= DayOf(df[i + 1])

\* A user whose later append carries the later date: the listing shows the
\* two records in the reverse of their append order.
C16_Witness ==
    \E u \in 1..MaxUsers :
        LET df == get_transactions(u)
        IN \E i \in 1..(Len(df) - 1) :
              /\ df[i].id > df[i + 1].id
              /\ DayOf(df[i]) > DayOf(df[i + 1])
              /\ df[i].description \in Descriptions
              /\ df[i + 1].description \in Descriptions

\* The (date, amount, category, description, type) tuple of a row.
TupleOf(r) == <<r.date, r.amount, r.category, r.description, r.type>>
\* The identifiers of the rows of a sequence.
IdsOf(rows) == {rows[i].id : i \in 1..Len(rows)}

\* C17: round trip.  The listing of a user holds exactly the rows stored for
\* that user, each once and with the stored values (none lost, none
\* invented); and when an "Add Transaction" commits, the listing of its user
\* gains exactly one record, whose tuple is the one entered: the date as its
\* ISO text, which reads back as the date entered, the amount with the sign of
\* its type, and the category, description and type as entered; the records
\* listed before are all still listed.
C17_RoundTrip ==
    /\ [](\A u \in 1..MaxUsers :
            LET df == get_transactions(u)
                stored == RowsOfUser(transactions, u)
            IN /\ Len(df) = Len(stored)
               /\ {df[i] : i \in 1..Len(df)} = {stored[i] : i \in 1..Len(stored)}
               /\ Cardinality(IdsOf(df)) = Len(df))
    /\ [][\A s \in Sessions :
            (UncommittedBy(s, "Add Transaction") /\ transactions' # transactions)
            => LET u == session[s].user_id
                   before == get_transactions(u)
                   after == ListingFrom(transactions', goals', u)[1]
                   new == SelectSeq(after, LAMBDA r : r.id \notin IdsOf(before))
                   form == run[s].form
               IN /\ Len(after) = Len(before) + 1
                  /\ {before[i] : i \in 1..Len(before)} \subseteq {after[i] : i \in 1..Len(after)}
                  /\ Len(new) = 1
                  /\ TupleOf(new[1]) =
                        <<DateStr(form.date),
                          IF form.type = "income" THEN form.amount ELSE -form.amount,
                          form.category, form.description, form.type>>
                  /\ to_datetime(new[1].date) = [y |-> form.date.y, m |-> form.date.m, d |-> form.date.d]
                  /\ new[1].user_id = u]_vars

\* Two entered transactions are listed back, the later entry first because it
\* carries the later date.
C17_Witness ==
    \E u \in 1..MaxUsers :
        LET df == get_transactions(u)
        IN /\ Len(df) = 2
           /\ TupleOf(df[1]) = <<DateStr(Date(2024, 7, 10)), 250, "Food", "lunch", "income">>
           /\ TupleOf(df[2]) = <<DateStr(Date(2024, 7, 1)), -250, "Food", "lunch", "expense">>
           /\ df[1].id > df[2].id

\* The Dashboard values v are those of the rows df: the notice for no rows,
\* else totals that are, to the cent, the sums of the rows.
ReflectsRows(v, df) ==
    IF df = <<>> THEN v = [view |-> "info"]
    ELSE /\ v.view = "dashboard"
         /\ AgreesToCent(v.total_income, IncomeCents(df))
         /\ AgreesToCent(v.total_expenses, ExpenseCents(df))
         /\ DOMAIN v.expense_by_category = {df[i].category : i \in {j \in 1..Len(df) : df[j].amount < 0}}
         /\ \A t \in DOMAIN v.fig_line : DOMAIN v.fig_line[t] = DatesOf(df)

\* C18: computing the views is free of side effects and of hidden state.  A
\* step that changes what a session's screen shows leaves the users, the
\* transactions and the goals as they were; what the screen then shows are
\* the values of the user's rows as stored at that moment, every committed
\* transaction among them; and while the rows on the screen are the rows
\* stored, no further computation changes the screen.
C18_ViewsArePure ==
    [][\A s \in Sessions :
          LET df == ListingFrom(transactions', goals', session[s].user_id)[1]
          IN /\ screen'[s] # screen[s]
                => /\ transactions' = transactions /\ goals' = goals /\ users' = users
                   /\ screen'[s].view = "run"
                   /\ Len(screen'[s].recent) = Len(df)
                   /\ \A i \in 1..Len(df) :
                         /\ DateStr(screen'[s].recent[i][1]) = df[i].date
                         /\ Tail(screen'[s].recent[i]) =
                               <<df[i].category, df[i].description, df[i].amount, df[i].type>>
                   /\ ReflectsRows(screen'[s].dashboard, df)
             /\ (screen[s].view = "run" /\ session[s].authenticated
                 /\ Len(screen[s].recent) = Len(df)
                 /\ \A i \in 1..Len(df) : screen[s].recent[i][4] = df[i].amount
                                          /\ DateStr(screen[s].recent[i][1]) = df[i].date)
                => screen'[s] = screen[s]]_vars

\* The screen of a run shows two committed transactions and their totals.
C18_Witness ==
    \E s \in Sessions :
        /\ screen[s].view = "run"
        /\ Len(screen[s].recent) = 2
        /\ screen[s].dashboard.view = "dashboard"
        /\ screen[s].dashboard.total_income = ToDouble(1)
        /\ screen[s].dashboard.total_expenses = ToDouble(250)
        /\ Len(get_transactions(session[s].user_id)) = 2

\* The session state of a session nobody is logged in to.
LoggedOut == [authenticated |-> FALSE, user_id |-> None, username |-> NoneStr]

\* C19: session invariant.  A session is authenticated exactly when its
\* user_id and its username are set, and then they are the id and the name of
\* one registered user; a session that is not authenticated has neither set.
\* A session state changes in two ways only: a login takes a logged-out
\* session to authenticated with the id and name of a registered user whose
\* password hash is that of a password of the form, and a logout resets
\* authenticated, user_id and username together; no other step (a failed
\* login among them) changes any of the three, and no step changes another
\* session's state.
C19_SessionInvariant ==
    /\ [](\A s \in Sessions :
            /\ session[s].authenticated
                  <=> (session[s].user_id # None /\ session[s].username # NoneStr)
            /\ ~session[s].authenticated => session[s] = LoggedOut
            /\ session[s].authenticated
                  => \E i \in 1..Len(users) :
                        /\ users[i].id = session[s].user_id
                        /\ users[i].username = session[s].username)
    /\ [][\A s \in Sessions :
            session'[s] # session[s]
            => /\ \/ /\ session[s] = LoggedOut
                     /\ session'[s].authenticated
                     /\ \E i \in 1..Len(users), password \in Passwords :
                           /\ users[i].id = session'[s].user_id
                           /\ users[i].username = session'[s].username
                           /\ users[i].password_hash = hash_password(password)
                  \/ /\ session[s].authenticated
                     /\ session'[s] = LoggedOut
               /\ \A t \in Sessions \ {s} : session'[t] = session[t]
               /\ users' = users]_vars

\* One session is logged in as the second user while the other session, from
\* which the first user wrote a row, is logged out again.
C19_Witness ==
    \E s, t \in Sessions :
        /\ s # t
        /\ session[s].authenticated
        /\ session[t] = LoggedOut
        /\ \E i \in 1..Len(transactions) : transactions[i].user_id # session[s].user_id
        /\ \E i \in 1..Len(goals) : goals[i].user_id = session[s].user_id

\* The rows a step adds to a table.
Added(before, after) == SubSeq(after, Len(before) + 1, Len(after))

\* C20: nothing is inserted by a session that is not authenticated.  A
\* session with an insert under way (rows written and not yet committed, or
\* the sample data about to be written) is authenticated, and its rows carry
\* its own user_id; every step that adds rows to the transactions or the goals
\* is the commit of such a session, which is authenticated before and after
\* the step; so every stored row carries the id of a registered user.
C20_InsertsOnlyWhenAuthenticated ==
    /\ [](/\ \A s \in Sessions :
               run[s].pc \in {"uncommitted", "sample_ready"}
               => /\ session[s].authenticated
                  /\ session[s].user_id # None
                  /\ \A i \in 1..Len(run[s].rows) :
                        run[s].rows[i].user_id = session[s].user_id
          /\ \A i \in 1..Len(transactions) :
               \E j \in 1..Len(users) : users[j].id = transactions[i].user_id
          /\ \A i \in 1..Len(goals) :
               \E j \in 1..Len(users) : users[j].id = goals[i].user_id)
    /\ [][(transactions' # transactions \/ goals' # goals)
          => /\ IsPrefix(transactions, transactions') /\ IsPrefix(goals, goals')
             /\ \E s \in Sessions :
                   /\ run[s].pc = "uncommitted"
                   /\ session[s].authenticated /\ session'[s] = session[s]
                   /\ LET new == Added(transactions, transactions') \o Added(goals, goals')
                      IN /\ new = run[s].rows
                         /\ \A i \in 1..Len(new) : new[i].user_id = session[s].user_id]_vars

\* One session commits rows while the other, logged out, has written nothing:
\* every stored row is the first session's.
C20_Witness ==
    \E s, t \in Sessions :
        /\ s # t
        /\ session[t] = LoggedOut
        /\ session[s].authenticated
        /\ transactions # <<>> /\ goals # <<>>
        /\ \A i \in 1..Len(transactions) : transactions[i].user_id = session[s].user_id
        /\ \A i \in 1..Len(goals) : goals[i].user_id = session[s].user_id

\* The rows of user u that carry the values of the k-th sample record.
SampleCopies(u, k) ==
    LET t == sample_transactions[k]
    IN {i \in 1..Len(transactions) :
           /\ transactions[i].user_id = u
           /\ TupleOf(transactions[i]) = <<DateStr(t[1]), t[2], t[3], t[4], t[5]>>}

\* C21: sample data is generated only for a user whose listing is empty, so
\* whatever the sessions of that user do and however their steps interleave,
\* each sample record is stored at most once for the user: a ledger never
\* holds two copies of the sample set.
C21_SampleAtMostOnce ==
    \A u \in 1..MaxUsers : \A k \in 1..Len(sample_transactions) :
        Cardinality(SampleCopies(u, k)) <= 1

\* The usernames stored in a users table.
NamesIn(table) == {table[i].username : i \in 1..Len(table)}

\* C22: usernames are unique in every reachable state of the users table.  A
\* registration under a username already stored is answered False and leaves
\* the users table as it was, the stored row keeping its id, password hash
\* and email; a registration under a new username is answered True and adds
\* exactly one row, with that username, the hash of the password typed and a
\* new id, behind the rows stored before; and the table changes in no other
\* way.
C22_UsernamesUnique ==
    /\ [](/\ Cardinality(NamesIn(users)) = Len(users)
          /\ Cardinality({users[i].id : i \in 1..Len(users)}) = Len(users))
    /\ [][/\ users' # users
             => /\ Len(users') = Len(users) + 1
                /\ SubSeq(users', 1, Len(users)) = users
                /\ Last(users').username \notin NamesIn(users)
                /\ \E password \in Passwords :
                      Last(users').password_hash = hash_password(password)
                /\ \E s \in Sessions :
                      /\ screen'[s] = Registration(Last(users').username, TRUE)
                      /\ \A t \in Sessions \ {s} : screen'[t] = screen[t]
          /\ \A s \in Sessions :
                (screen'[s] # screen[s] /\ screen'[s].view = "register")
                => IF screen'[s].ok
                   THEN /\ screen'[s].username \notin NamesIn(users)
                        /\ Len(users') = Len(users) + 1
                        /\ Last(users').username = screen'[s].username
                   ELSE /\ screen'[s].username \in NamesIn(users)
                        /\ users' = users]_vars

\* Both usernames are stored and a session has just been told that the first
\* of them exists already; that user's row still holds password and email of
\* its own registration, which differ from the second user's.
C22_Witness ==
    \E s \in Sessions :
        /\ Len(users) = 2
        /\ screen[s] = Registration(users[1].username, FALSE)
        /\ users[1].password_hash # users[2].password_hash
        /\ users[1].email # users[2].email

\* The sums a table of doubles can add up to: its values added as doubles, in
\* every order of its keys.
SumsOf(table) ==
    LET keys == DOMAIN table
        n == Cardinality(keys)
    IN {FSum([i \in 1..n |-> table[order[i]]]) :
           order \in {f \in [1..n -> keys] : \A a, b \in 1..n : a # b => f[a] # f[b]}}

\* The number of rows the per-category counts add up to.
CountsTotal(stats) ==
    Cardinality(UNION {{<<c, i>> : i \in 1..stats[c].transaction_count} : c \in DOMAIN stats})

\* C23: for a non-empty transaction set the expense aggregates are mutually
\* consistent: the values of the category breakdown (the Dashboard's and the
\* Analytics tab's), of the monthly spending and of the day-of-week pattern
\* each add up, in some order, to the total expenses shown, and the
\* per-category transaction counts add up to the number of rows with a
\* negative amount.
C23_AggregatesConsistent ==
    \A s \in Sessions :
        (screen[s].view = "run" /\ screen[s].analytics.view = "analytics") =>
            LET df == get_transactions(session[s].user_id)
                total == screen[s].dashboard.total_expenses
                stats == screen[s].analytics.category_stats
            IN /\ total \in SumsOf(screen[s].dashboard.expense_by_category)
               /\ total \in SumsOf([c \in DOMAIN stats |-> stats[c].total_spent])
               /\ total \in SumsOf(screen[s].analytics.monthly_spending)
               /\ total \in SumsOf(screen[s].analytics.weekly_pattern)
               /\ CountsTotal(stats) = Cardinality({i \in 1..Len(df) : df[i].amount < 0})

\* What does hold of the aggregates: each adds up to the total expenses to the
\* cent, and the counts add up to the number of expense rows.
C23_AggregatesAgreeToCent ==
    \A s \in Sessions :
        (screen[s].view = "run" /\ screen[s].analytics.view = "analytics") =>
            LET df == get_transactions(session[s].user_id)
                stats == screen[s].analytics.category_stats
                cents == ExpenseCents(df)
                ToCent(table) == \A sum \in SumsOf(table) : AgreesToCent(sum, cents)
            IN /\ ToCent(screen[s].dashboard.expense_by_category)
               /\ ToCent([c \in DOMAIN stats |-> stats[c].total_spent])
               /\ ToCent(screen[s].analytics.monthly_spending)
               /\ ToCent(screen[s].analytics.weekly_pattern)
               /\ AgreesToCent(screen[s].dashboard.total_expenses, cents)
               /\ CountsTotal(stats) = Cardinality({i \in 1..Len(df) : df[i].amount < 0})

====
